---- MODULE Spec2Model ----
(***************************************************************************)
(* Model of src/parameterize.py: the two-pass literal-to-parameter rewrite *)
(* of a notebook.  Text is modelled character by character: a string is a  *)
(* sequence of one-character strings, so that the regular expressions and  *)
(* the str.strip / str.replace calls of the source are computed, never     *)
(* assumed.                                                                *)
(***************************************************************************)
EXTENDS Integers, Sequences, FiniteSets, TLC

(***************************************************************************)
(* Characters and Python string primitives                                 *)
(***************************************************************************)
LowerChars == <<"a","b","c","d","e","f","g","h","i","j","k","l","m",
                "n","o","p","q","r","s","t","u","v","w","x","y","z">>

UpperChars == <<"A","B","C","D","E","F","G","H","I","J","K","L","M",
                "N","O","P","Q","R","S","T","U","V","W","X","Y","Z">>

DigitChars == <<"0","1","2","3","4","5","6","7","8","9">>

Range(s) == {s[i] : i \in DOMAIN s}

DQ == "\""

SQ == "'"

\* \s of the re module and the default str.strip() set, over the characters used
IsSpace(c) == c \in {" ", "\t", "\n"}

\* [a-zA-Z0-9]
IsAlnum(c) == c \in Range(LowerChars) \cup Range(UpperChars) \cup Range(DigitChars)

\* \w of the re module: the characters on both sides of which \b does not hold
IsWord(c) == IsAlnum(c) \/ c = "_"

\* str.upper() on one character
UpperChar(c) ==
    IF c \in Range(LowerChars)
    THEN UpperChars[CHOOSE i \in DOMAIN LowerChars : LowerChars[i] = c]
    ELSE c

\* str.upper()
Upper(s) == [i \in DOMAIN s |-> UpperChar(s[i])]

\* str.lower() on one character
LowerChar(c) ==
    IF c \in Range(UpperChars)
    THEN LowerChars[CHOOSE i \in DOMAIN UpperChars : UpperChars[i] = c]
    ELSE c

\* str.lower()
Lower(s) == [i \in DOMAIN s |-> LowerChar(s[i])]

Min(S) == CHOOSE x \in S : \A y \in S : x <= y

Max(S) == CHOOSE x \in S : \A y \in S : x >= y

\* s[i-1:] of Python, i a 1-based position
From(s, i) == SubSeq(s, i, Len(s))

\* str.strip(chars): drop the leading and trailing characters that are in cs
StripChars(s, cs) ==
    LET keep == {i \in DOMAIN s : s[i] \notin cs}
    IN  IF keep = {} THEN <<>> ELSE SubSeq(s, Min(keep), Max(keep))

\* str.strip()
Strip(s) == StripChars(s, {" ", "\t", "\n"})

\* p occurs in s at position i
OccursAt(s, p, i) ==
    /\ i >= 1
    /\ i + Len(p) - 1 <= Len(s)
    /\ SubSeq(s, i, i + Len(p) - 1) = p

\* str.find, 1-based, searching from position i; 0 when p does not occur
FindFrom(s, p, i) ==
    LET idx == {j \in i..(Len(s) + 1) : OccursAt(s, p, j)}
    IN  IF idx = {} THEN 0 ELSE Min(idx)

Find(s, p) == FindFrom(s, p, 1)

\* p in s
Contains(s, p) == Find(s, p) # 0

\* s.replace(old, new, 1)
ReplaceFirst(s, old, new) ==
    LET i == Find(s, old)
    IN  IF i = 0 THEN s
        ELSE SubSeq(s, 1, i - 1) \o new \o From(s, i + Len(old))

\* s.replace(old, new): every non-overlapping occurrence, left to right
RECURSIVE ReplaceAll(_, _, _)
ReplaceAll(s, old, new) ==
    LET i == Find(s, old)
    IN  IF old = <<>>
        THEN IF s = <<>> THEN new ELSE new \o <<Head(s)>> \o ReplaceAll(Tail(s), old, new)
        ELSE IF i = 0 THEN s
        ELSE SubSeq(s, 1, i - 1) \o new \o ReplaceAll(From(s, i + Len(old)), old, new)

\* str(n) for a natural number
RECURSIVE Decimal(_)
Decimal(n) ==
    IF n < 10 THEN <<DigitChars[n + 1]>>
    ELSE Decimal(n \div 10) \o <<DigitChars[(n % 10) + 1]>>

(***************************************************************************)
(* Parameter Table: param_list is the list of minted names, in the order   *)
(* of minting; param_value_dict is the insertion-ordered dict name ->      *)
(* value, as a sequence of [key, value] records.                           *)
(***************************************************************************)
PARAM == <<"P","A","R","A","M","_">>

Keys(d) == {d[i].key : i \in DOMAIN d}

\* dictionary[key] = val : in place when the key exists, else appended
DictSet(d, k, v) ==
    IF k \in Keys(d)
    THEN [i \in DOMAIN d |-> IF d[i].key = k THEN [key |-> k, value |-> v] ELSE d[i]]
    ELSE Append(d, [key |-> k, value |-> v])

\* the returned key, or <<>> for None (no key is the empty string)
get_key(dictionary, value) ==
    LET hits == {i \in DOMAIN dictionary :
                    StripChars(Strip(dictionary[i].value), {"\n"}) =
                    StripChars(Strip(value), {"\n"})}
    IN  IF hits = {} THEN <<>> ELSE dictionary[Min(hits)].key

\* last position of the run of alphanumerics that starts at i
RECURSIVE AlnumRunEnd(_, _)
AlnumRunEnd(s, i) ==
    IF i < Len(s) /\ IsAlnum(s[i + 1]) THEN AlnumRunEnd(s, i + 1) ELSE i

\* start positions of the matches of \b[a-zA-Z0-9]+\b in s
TokenStarts(s) ==
    {i \in DOMAIN s :
        /\ IsAlnum(s[i])
        /\ (i = 1 \/ ~IsWord(s[i - 1]))
        /\ LET e == AlnumRunEnd(s, i) IN (e = Len(s) \/ ~IsWord(s[e + 1]))}

\* get_alphanumeric without the extraction of the token
get_alphanumeric_whole(variable) ==
    Upper(StripChars(StripChars(Strip(variable), {DQ}), {SQ}))

get_alphanumeric(variable) ==
    LET cleaned == Upper(StripChars(StripChars(Strip(variable), {DQ}), {SQ}))
        starts  == TokenStarts(cleaned)
    IN  IF starts # {}
        THEN Strip(SubSeq(cleaned, Max(starts), AlnumRunEnd(cleaned, Max(starts))))
        ELSE cleaned

RECURSIVE IncrementFrom(_, _, _)
IncrementFrom(variable, param_list, ctr) ==
    LET param_name == PARAM \o variable \o <<"_">> \o Decimal(ctr)
    IN  IF param_name \notin Range(param_list)
        THEN [param_name |-> param_name, param_list |-> Append(param_list, param_name)]
        ELSE IncrementFrom(variable, param_list, ctr + 1)

\* increment_param_name without the membership test of its loop
increment_param_name_unchecked(variable, param_list) ==
    LET param_name == PARAM \o variable \o <<"_">> \o Decimal(2)
    IN  [param_name |-> param_name, param_list |-> Append(param_list, param_name)]

increment_param_name(variable, param_list) == IncrementFrom(variable, param_list, 2)

add_to_param_dict(variable, param_list) ==
    LET param_name == PARAM \o variable
    IN  IF param_name \notin Range(param_list)
        THEN [param_name |-> param_name, param_list |-> Append(param_list, param_name)]
        ELSE increment_param_name(variable, param_list)

process_parameter_dict(value, variable, param_list, param_value_dict) ==
    LET temp_key == get_key(param_value_dict, value)
    IN  IF temp_key # <<>>
        THEN [param_name |-> temp_key, param_list |-> param_list,
              param_value_dict |-> param_value_dict]
        ELSE LET r == add_to_param_dict(get_alphanumeric(variable), param_list)
             IN  [param_name |-> r.param_name, param_list |-> r.param_list,
                  param_value_dict |->
                      DictSet(param_value_dict, r.param_name,
                              StripChars(StripChars(value, {DQ}), {SQ}))]

(***************************************************************************)
(* Line rewriting primitives                                               *)
(***************************************************************************)
update_new_line(orig_line, orig_text, new_text) ==
    LET dquoted == <<DQ>> \o orig_text \o <<DQ>>
        squoted == <<SQ>> \o orig_text \o <<SQ>>
    IN  IF Contains(orig_line, dquoted)
        THEN ReplaceFirst(orig_line, dquoted, new_text)
        ELSE ReplaceFirst(ReplaceFirst(orig_line, squoted, new_text), orig_text, new_text)

\* position of the quote q that closes, for q(.*?)q, the quote at i; 0 if none
\* ("." does not match a newline)
LazyClose(text, i, q) ==
    LET j  == FindFrom(text, <<q>>, i + 1)
        nl == FindFrom(text, <<"\n">>, i + 1)
    IN  IF j = 0 \/ (nl # 0 /\ nl < j) THEN 0 ELSE j

\* re.search(r'"(.*?)"|\'(.*?)\'', text).group(0), or <<>> for None
get_quoted_text(text) ==
    LET starts == {i \in DOMAIN text :
                      /\ text[i] \in {DQ, SQ}
                      /\ LazyClose(text, i, text[i]) # 0}
    IN  IF starts = {} THEN <<>>
        ELSE SubSeq(text, Min(starts), LazyClose(text, Min(starts), text[Min(starts)]))

\* the while True loop of replace_quoted_string_with_dict_key for one item
RECURSIVE QuotedLoop(_, _, _)
QuotedLoop(line, key, value) ==
    LET quoted_text == get_quoted_text(line)
    IN  IF quoted_text = <<>> THEN line
        ELSE LET replaced ==
                     IF StripChars(StripChars(quoted_text, {DQ}), {SQ}) = value
                     THEN ReplaceAll(line, quoted_text, key)
                     ELSE line
             IN  IF replaced = line THEN line ELSE QuotedLoop(replaced, key, value)

\* the for loop over value_dict.items(), from item k on
RECURSIVE ReplaceQuotedFrom(_, _, _)
ReplaceQuotedFrom(line, value_dict, k) ==
    IF k > Len(value_dict) THEN line
    ELSE IF ~Contains(line, value_dict[k].value)
         THEN ReplaceQuotedFrom(line, value_dict, k + 1)
         ELSE ReplaceQuotedFrom(QuotedLoop(line, value_dict[k].key, value_dict[k].value),
                                value_dict, k + 1)

replace_quoted_string_with_dict_key(line, value_dict) ==
    ReplaceQuotedFrom(line, value_dict, 1)

update_quoted_parameters(nb_source_lines, param_value_dict) ==
    [i \in DOMAIN nb_source_lines |->
        replace_quoted_string_with_dict_key(nb_source_lines[i], param_value_dict)]

(***************************************************************************)
(* Regular-expression matchers of the detectors                            *)
(***************************************************************************)
\* last position of the longest run, starting at i, of characters outside
\* the set stop; i - 1 when the run is empty
RECURSIVE RunEnd(_, _, _)
RunEnd(text, i, stop) ==
    IF i <= Len(text) /\ text[i] \notin stop THEN RunEnd(text, i + 1, stop) ELSE i - 1

\* first position at or after i that is not whitespace (Len + 1 at the end)
RECURSIVE SkipSpace(_, _)
SkipSpace(text, i) ==
    IF i <= Len(text) /\ IsSpace(text[i]) THEN SkipSpace(text, i + 1) ELSE i

NoMatch == [ok |-> FALSE, value |-> <<>>, end |-> 0]

\* (?:"([^"]+)"|'([^']+)') at position v
QuotedValueAt(text, v) ==
    IF v > Len(text) \/ text[v] \notin {DQ, SQ} THEN NoMatch
    ELSE LET c == FindFrom(text, <<text[v]>>, v + 1)
         IN  IF c >= v + 2
             THEN [ok |-> TRUE, value |-> SubSeq(text, v + 1, c - 1), end |-> c]
             ELSE NoMatch

\* \s*(?:=|:)\s*(?:"([^"]+)"|'([^']+)') right after position e
AssignTail(text, e) ==
    LET sep == SkipSpace(text, e + 1)
    IN  IF sep <= Len(text) /\ text[sep] \in {"=", ":"}
        THEN QuotedValueAt(text, SkipSpace(text, sep + 1))
        ELSE NoMatch

\* the match of ([^=,]+)\s*(?:=|:)\s*(?:"([^"]+)"|'([^']+)') that starts at s:
\* the first group is greedy, so the longest first group that lets the rest match
AssignMatchAt(text, s) ==
    LET ends == {e \in s..RunEnd(text, s, {"=", ","}) : AssignTail(text, e).ok}
    IN  IF ends = {} THEN [ok |-> FALSE, variable |-> <<>>, value |-> <<>>, end |-> 0]
        ELSE [ok |-> TRUE, variable |-> SubSeq(text, s, Max(ends)),
              value |-> AssignTail(text, Max(ends)).value,
              end |-> AssignTail(text, Max(ends)).end]

\* re.finditer of that pattern: the non-overlapping matches at or after pos
RECURSIVE AssignMatchesFrom(_, _)
AssignMatchesFrom(text, pos) ==
    LET starts == {s \in pos..Len(text) : AssignMatchAt(text, s).ok}
    IN  IF starts = {} THEN <<>>
        ELSE LET m == AssignMatchAt(text, Min(starts))
             IN  <<[variable |-> m.variable, value |-> m.value]>>
                 \o AssignMatchesFrom(text, m.end + 1)

\* the match of %env\s+([^=,]+)\s*=\s*(?:"([^"]+)"|'([^']+)'|([^\s,]+)) at i
EnvMatchAt(text, i) ==
    LET p     == i + 4
        wsEnd == SkipSpace(text, p)
        g     == IF wsEnd <= Len(text) /\ text[wsEnd] \notin {"=", ","}
                 THEN wsEnd
                 ELSE wsEnd - 1
        e     == RunEnd(text, g, {"=", ","})
        v     == SkipSpace(text, e + 2)
        q     == QuotedValueAt(text, v)
        bare  == RunEnd(text, v, {" ", "\t", "\n", ","})
    IN  IF /\ OccursAt(text, <<"%","e","n","v">>, i)
           /\ wsEnd > p
           /\ g > p
           /\ e >= g
           /\ e + 1 <= Len(text)
           /\ text[e + 1] = "="
        THEN IF q.ok THEN [key |-> SubSeq(text, g, e), value |-> q.value]
             ELSE IF bare >= v THEN [key |-> SubSeq(text, g, e), value |-> SubSeq(text, v, bare)]
             ELSE [key |-> <<>>, value |-> <<>>]
        ELSE [key |-> <<>>, value |-> <<>>]

\* (key, value), or (<<>>, <<>>) for (None, None)
extract_env_key_value(line) ==
    LET starts == {i \in DOMAIN line : EnvMatchAt(line, i).key # <<>>}
    IN  IF starts = {} THEN [key |-> <<>>, value |-> <<>>]
        ELSE EnvMatchAt(line, Min(starts))

S3Scheme == <<"s","3",":","/","/">>

\* re.search(r'(s3://[^\s]+)', line).group(1), or the empty string
extract_s3_uri(line) ==
    LET starts == {i \in DOMAIN line :
                      /\ OccursAt(line, S3Scheme, i)
                      /\ RunEnd(line, i + 5, {" ", "\t", "\n"}) >= i + 5}
    IN  IF starts = {} THEN <<>>
        ELSE SubSeq(line, Min(starts), RunEnd(line, Min(starts) + 5, {" ", "\t", "\n"}))

extensions == << <<"p","k","l">>, <<"p","k">>, <<"c","s","v">>,
                 <<"j","o","b","l","i","b">>, <<"o","n","n","x">>,
                 <<"i","p","y","n","b">> >>

EndsWith(s, suffix) ==
    /\ Len(s) >= Len(suffix)
    /\ SubSeq(s, Len(s) - Len(suffix) + 1, Len(s)) = suffix

\* the body of the group 2 of get_pattern(extensions):
\* [^"']+\.ext for one of the extensions, or s3://[^"']+
get_pattern(filepath) ==
    \/ \E k \in DOMAIN extensions :
          /\ EndsWith(filepath, <<".">> \o extensions[k])
          /\ Len(filepath) >= Len(extensions[k]) + 2
    \/ /\ OccursAt(filepath, S3Scheme, 1)
       /\ Len(filepath) >= 6

\* the closing position of (["'])(...)\1 opened at s, 0 when it does not match
FileMatchAt(line, s) ==
    IF line[s] \notin {DQ, SQ} THEN 0
    ELSE LET c == RunEnd(line, s + 1, {DQ, SQ}) + 1
         IN  IF /\ c <= Len(line)
                /\ line[c] = line[s]
                /\ get_pattern(SubSeq(line, s + 1, c - 1))
             THEN c ELSE 0

LastIndex(s, c) ==
    LET idx == {i \in DOMAIN s : s[i] = c} IN IF idx = {} THEN 0 ELSE Max(idx)

\* os.path.splitext, the extension returned without its dot (extension[1:])
splitext(filepath) ==
    LET sep == LastIndex(filepath, "/")
        dot == LastIndex(filepath, ".")
    IN  IF dot > sep /\ \E k \in (sep + 1)..(dot - 1) : filepath[k] # "."
        THEN [filename |-> SubSeq(filepath, 1, dot - 1), extension |-> From(filepath, dot + 1)]
        ELSE [filename |-> filepath, extension |-> <<>>]

\* re.findall of the pattern, at or after pos, each match split by splitext
RECURSIVE FileReferencesFrom(_, _)
FileReferencesFrom(line, pos) ==
    LET starts == {s \in pos..Len(line) : FileMatchAt(line, s) # 0}
    IN  IF starts = {} THEN <<>>
        ELSE LET s == Min(starts)
                 c == FileMatchAt(line, s)
                 r == splitext(SubSeq(line, s + 1, c - 1))
             IN  <<[quote |-> line[s], filename |-> r.filename, extension |-> r.extension]>>
                 \o FileReferencesFrom(line, c + 1)

get_file_references(line) == FileReferencesFrom(line, 1)

(***************************************************************************)
(* Pass 1 on one line (the body of the loop over lines).  st is the record *)
(* [new_line, param_list, param_value_dict] that the detectors thread.     *)
(***************************************************************************)
\* process_parameter_dict, then update_new_line with the name decorated
Substitute(st, value, variable, before, after) ==
    LET r == process_parameter_dict(value, variable, st.param_list, st.param_value_dict)
    IN  [new_line |-> update_new_line(st.new_line, value, before \o r.param_name \o after),
         param_list |-> r.param_list,
         param_value_dict |-> r.param_value_dict]

\* re.match(r'^(def|for|while|import|#|from)', line.strip())
control_flow_regex(line) ==
    \E kw \in { <<"d","e","f">>, <<"f","o","r">>, <<"w","h","i","l","e">>,
                <<"i","m","p","o","r","t">>, <<"#">>, <<"f","r","o","m">> } :
        OccursAt(Strip(line), kw, 1)

TripleQuote == <<DQ, DQ, DQ>>

\* the for loop over the matches of the assignment pattern, from match k on
RECURSIVE AssignLoop(_, _, _)
AssignLoop(matches, k, st) ==
    IF k > Len(matches) THEN st
    ELSE IF matches[k].variable = <<>> \/ matches[k].value = <<>>
              \/ Strip(matches[k].value) = <<>>
         THEN AssignLoop(matches, k + 1, st)
         ELSE AssignLoop(matches, k + 1,
                         Substitute(st, matches[k].value, matches[k].variable, <<>>, <<>>))

EnvMarker == <<"%","e","n","v">>

\* the while True loop over notebook environment variables
RECURSIVE EnvLoop(_, _)
EnvLoop(line, st) ==
    IF ~Contains(line, EnvMarker) THEN st
    ELSE LET kv == extract_env_key_value(st.new_line)
         IN  IF kv.key = <<>> \/ kv.value = <<>> THEN st
             ELSE LET next == Substitute(st, kv.value, kv.key, <<"$">>, <<>>)
                  IN  EnvLoop(ReplaceAll(next.new_line, EnvMarker, <<>>), next)

\* the for loop over get_file_references(new_line), from reference k on
RECURSIVE FileLoop(_, _, _)
FileLoop(files, k, st) ==
    IF k > Len(files) THEN st
    ELSE LET filename  == files[k].filename
             extension == files[k].extension
             variable  == IF Len(extension) > 0 THEN Upper(extension)
                          ELSE Upper(SubSeq(filename, 1, IF Len(filename) < 2 THEN Len(filename) ELSE 2))
             value     == filename \o <<".">> \o extension
         IN  FileLoop(files, k + 1, Substitute(st, value, variable, <<>>, <<>>))

\* the s3 uri of a bash command
ShellDetector(st) ==
    IF st.new_line # <<>> /\ Head(st.new_line) = "!" /\ extract_s3_uri(st.new_line) # <<>>
    THEN Substitute(st, extract_s3_uri(st.new_line), <<"S","3","_","U","R","I">>, <<"{">>, <<"}">>)
    ELSE st

\* detector k of the chain: assignment, environment directive, file reference,
\* shell command; each works on the line as the detectors before it left it
Detector(k, st) ==
    CASE k = 1 -> AssignLoop(AssignMatchesFrom(st.new_line, 1), 1, st)
      [] k = 2 -> EnvLoop(st.new_line, st)
      [] k = 3 -> FileLoop(get_file_references(st.new_line), 1, st)
      [] OTHER -> ShellDetector(st)

RECURSIVE DetectorChain(_, _)
DetectorChain(k, st) ==
    IF k > 4 THEN st ELSE DetectorChain(k + 1, Detector(k, st))

\* the detectors in their order, on a line the filter let through
Detectors(line, param_list, param_value_dict) ==
    DetectorChain(1, [new_line |-> line, param_list |-> param_list,
                      param_value_dict |-> param_value_dict])

\* the three "continue" tests at the top of the loop body
Skipped(line) ==
    \/ control_flow_regex(line)
    \/ Contains(line, TripleQuote)
    \/ Len(Strip(line)) = 0

\* one iteration of "for i, line in enumerate(lines)"
ScanOneLine(line, param_list, param_value_dict) ==
    IF Skipped(line)
    THEN [new_line |-> line, param_list |-> param_list,
          param_value_dict |-> param_value_dict]
    ELSE Detectors(line, param_list, param_value_dict)

(***************************************************************************)
(* Header synthesis and snippet cells                                      *)
(***************************************************************************)
ParamsUri == <<"p","a","r","a","m","s","_","u","r","i">>

\* the lines of the string "code" built by add_papermill_params, from item k on:
\* one declaration per item, then params_uri = ""
RECURSIVE HeaderLinesFrom(_, _)
HeaderLinesFrom(params_dict, k) ==
    IF k > Len(params_dict)
    THEN << ParamsUri \o <<" ", "=", " ", DQ, DQ>> >>
    ELSE LET key   == params_dict[k].key
             value == params_dict[k].value
             q     == IF Contains(value, <<DQ>>) THEN SQ ELSE DQ
         IN  << key \o <<" ", "=", " ", q>> \o value \o <<q, "\n">> >>
             \o HeaderLinesFrom(params_dict, k + 1)

\* nbformat.v4.new_code_cell(source=code), metadata['tags'] = [tag]
new_code_cell(source, tag) ==
    [cell_type |-> "code", source |-> source, tags |-> <<tag>>]

\* inject_code_at_top with the new cell appended instead of inserted at 0
inject_code_at_bottom(cells, source, tag) == cells \o <<new_code_cell(source, tag)>>

\* nb['cells'].insert(0, new_cell)
inject_code_at_top(cells, source, tag) == <<new_code_cell(source, tag)>> \o cells

add_papermill_params(cells, params_dict) ==
    inject_code_at_top(cells, HeaderLinesFrom(params_dict, 1), "parameters")

\* first lines of the three snippet templates; the rest of a template is
\* fixed text that nothing in the model reads
params_uri_snippet == << <<"i","m","p","o","r","t"," ","j","s","o","n","\n">> >>

papermill_snippet ==
    << <<"#"," ","P","A","P","E","R","M","I","L","L"," ","S","N","I","P","P","E","T","\n">> >>

nbrun_snippet == << <<"#"," ","N","B","R","U","N"," ","S","N","I","P","P","E","T","\n">> >>

Papermill == <<"p","a","p","e","r","m","i","l","l">>

Nbrun == <<"n","b","r","u","n">>

(***************************************************************************)
(* Input documents                                                         *)
(***************************************************************************)
MaxLines == 2

MaxRuns == 2

\* a = "x"   (an assignment of a literal)
LineAssign ==
    <<"a"," ","="," ","\"","x","\"">>

\* f("q", "x")   (literals passed as bare arguments)
LineCall ==
    <<"f","(","\"","q","\"",","," ","\"","x","\"",")">>

\* b = "'x'"   (a literal that carries its own quotes)
LineNested ==
    <<"b"," ","="," ","\"","'","x","'","\"">>

\* default = "x"   (an assignment to a name that begins with def)
LineDefault ==
    <<"d","e","f","a","u","l","t"," ","="," ","\"","x","\"">>

\* if c: y = "v"   (a conditional with an assignment)
LineIf ==
    <<"i","f"," ","c",":"," ","y"," ","="," ","\"","v","\"">>

\* def f(k="x"):   (a definition with a quoted default)
LineDef ==
    <<"d","e","f"," ","f","(","k","=","\"","x","\"",")",":">>

\* d = """z"""   (a triple-quoted literal)
LineDoc ==
    <<"d"," ","="," ","\"","\"","\"","z","\"","\"","\"">>

\* %env KEY = "v"   (an environment directive, double-quoted value)
LineEnvQuoted ==
    <<"%","e","n","v"," ","K","E","Y"," ","="," ","\"","v","\"">>

\* %env KEY = 'w'   (an environment directive, single-quoted value)
LineEnvSingle ==
    <<"%","e","n","v"," ","K","E","Y"," ","="," ","'","w","'">>

\* %env KEY = abc   (an environment directive, bareword value)
LineEnvBare ==
    <<"%","e","n","v"," ","K","E","Y"," ","="," ","a","b","c">>

\* g("x.csv")   (a file reference passed as an argument)
LineFile ==
    <<"g","(","\"","x",".","c","s","v","\"",")">>

\* h("s3://b/k")   (an object-storage URI without extension)
LineUri ==
    <<"h","(","\"","s","3",":","/","/","b","/","k","\"",")">>

\* !cp s3://b/k.csv .   (a shell command with an object-storage URI)
LineShell ==
    <<"!","c","p"," ","s","3",":","/","/","b","/","k",".","c","s","v"," ",".">>

\* my_bucket = "v"   (a hint with an underscore)
LineUnderscore ==
    <<"m","y","_","b","u","c","k","e","t"," ","="," ","\"","v","\"">>

Catalog ==
    {LineAssign, LineCall, LineNested,
     LineDefault, LineIf, LineDef, LineDoc,
     LineEnvQuoted, LineEnvSingle, LineEnvBare, LineFile,
     LineUri, LineShell, LineUnderscore}

\* the source of a cell as Jupyter stores it: every line but the last ends
\* with a newline
AsSource(ls) == [i \in DOMAIN ls |-> IF i < Len(ls) THEN ls[i] \o <<"\n">> ELSE ls[i]]

LineSeqs == UNION {[1..n -> Catalog] : n \in 1..MaxLines}

\* # Notes
MarkdownCell ==
    [cell_type |-> "markdown", source |-> << <<"#"," ","N","o","t","e","s">> >>, tags |-> <<>>]

\* a markdown cell followed by one code cell
Documents ==
    { <<MarkdownCell, [cell_type |-> "code", source |-> AsSource(ls), tags |-> <<>>]>> :
        ls \in LineSeqs }

\* the values of the snippet argument: none, the two known runners (in any
\* letter case) and an unknown one
Snippets == { <<>>, Papermill, <<"N","B","R","u","n">>, <<"x">> }

NoFile == [exists |-> FALSE, cells |-> <<>>]

(***************************************************************************)
(* State                                                                   *)
(***************************************************************************)
VARIABLES
    pc,                \* position in parameterize_notebook
    run,               \* number of the current call
    input_notebook,    \* the cells of the input file
    snippet,           \* the snippet argument
    contents,          \* contents['cells'] of replace_literal_assignments
    ci, li,            \* cell and line reached by the loops
    param_list,        \* names minted so far, in order
    param_value_dict,  \* the Table
    output_notebook,   \* the output file: whether it exists, and its cells
    call               \* arguments and result of the last process_parameter_dict

vars == <<pc, run, input_notebook, snippet, contents, ci, li, param_list,
          param_value_dict, output_notebook, call>>

NoCall == [variable |-> <<>>, value |-> <<>>, param_name |-> <<>>, created |-> FALSE]

Init ==
    /\ pc = "start"
    /\ run = 1
    /\ input_notebook \in Documents
    /\ snippet \in Snippets
    /\ contents = <<>>
    /\ ci = 1
    /\ li = 1
    /\ param_list = <<>>
    /\ param_value_dict = <<>>
    /\ output_notebook = NoFile
    /\ call = NoCall

IsCode(cell) == cell.cell_type = "code"

\* with open(ipynb_file) ... json.load(f); param_list = []; param_value_dict = {}
ReadInput ==
    /\ pc = "start"
    /\ contents' = input_notebook
    /\ param_list' = <<>>
    /\ param_value_dict' = <<>>
    /\ ci' = 1
    /\ li' = 1
    /\ pc' = "pass1"
    /\ UNCHANGED <<run, input_notebook, snippet, output_notebook, call>>

\* the input cannot be opened or is not JSON: the call raises before any write
ReadFails ==
    /\ pc = "start"
    /\ pc' = "failed"
    /\ UNCHANGED <<run, input_notebook, snippet, contents, ci, li, param_list,
                   param_value_dict, output_notebook, call>>

\* pass 1, a cell that is not a code cell, or a code cell without lines
SkipCell ==
    /\ pc = "pass1"
    /\ ci <= Len(contents)
    /\ (~IsCode(contents[ci]) \/ li > Len(contents[ci].source))
    /\ ci' = ci + 1
    /\ li' = 1
    /\ UNCHANGED <<pc, run, input_notebook, snippet, contents, param_list,
                   param_value_dict, output_notebook, call>>

\* pass 1, one line of a code cell: filter, detectors, lines[i] = new_line
ScanLine ==
    /\ pc = "pass1"
    /\ ci <= Len(contents)
    /\ IsCode(contents[ci])
    /\ li <= Len(contents[ci].source)
    /\ LET r == ScanOneLine(contents[ci].source[li], param_list, param_value_dict)
       IN  /\ contents' = [contents EXCEPT ![ci].source[li] = r.new_line]
           /\ param_list' = r.param_list
           /\ param_value_dict' = r.param_value_dict
    /\ li' = li + 1
    /\ UNCHANGED <<pc, run, input_notebook, snippet, ci, output_notebook, call>>

\* pass 1 has gone through every cell
EndPass1 ==
    /\ pc = "pass1"
    /\ ci > Len(contents)
    /\ pc' = "pass2"
    /\ ci' = 1
    /\ li' = 1
    /\ UNCHANGED <<run, input_notebook, snippet, contents, param_list,
                   param_value_dict, output_notebook, call>>

\* pass 2, one cell: cell['source'] = update_quoted_parameters(...)
SyncCell ==
    /\ pc = "pass2"
    /\ ci <= Len(contents)
    /\ contents' = IF IsCode(contents[ci])
                   THEN [contents EXCEPT ![ci].source =
                            update_quoted_parameters(contents[ci].source, param_value_dict)]
                   ELSE contents
    /\ ci' = ci + 1
    /\ UNCHANGED <<pc, run, input_notebook, snippet, li, param_list,
                   param_value_dict, output_notebook, call>>

\* with open(output_ipynb_file, 'w') ... json.dump(contents, f); return
WriteOutput ==
    /\ pc = "pass2"
    /\ ci > Len(contents)
    /\ output_notebook' = [exists |-> TRUE, cells |-> contents]
    /\ pc' = "written"
    /\ UNCHANGED <<run, input_notebook, snippet, contents, ci, li, param_list,
                   param_value_dict, call>>

\* the write raises: either open() failed and there is no file, or json.dump
\* failed and the file that open() created is left behind without cells
WriteFails ==
    /\ pc = "pass2"
    /\ ci > Len(contents)
    /\ \E created \in BOOLEAN :
          output_notebook' = [exists |-> created, cells |-> <<>>]
    /\ pc' = "failed"
    /\ UNCHANGED <<run, input_notebook, snippet, contents, ci, li, param_list,
                   param_value_dict, call>>

\* if snippet.lower() == 'nbrun': add_params_uri_snippet(output_notebook)
ParamsUriStep ==
    /\ pc = "written"
    /\ output_notebook' =
          IF Lower(snippet) = Nbrun
          THEN [output_notebook EXCEPT
                   !.cells = inject_code_at_top(@, params_uri_snippet, "None")]
          ELSE output_notebook
    /\ pc' = "header"
    /\ UNCHANGED <<run, input_notebook, snippet, contents, ci, li, param_list,
                   param_value_dict, call>>

\* add_papermill_params(output_notebook, param_dict)
HeaderStep ==
    /\ pc = "header"
    /\ output_notebook' =
          [output_notebook EXCEPT !.cells = add_papermill_params(@, param_value_dict)]
    /\ pc' = "snippet"
    /\ UNCHANGED <<run, input_notebook, snippet, contents, ci, li, param_list,
                   param_value_dict, call>>

\* if len(snippet): add_snippet(output_notebook, param_dict, snippet=snippet)
\* nbrun_snippet sets param_dict['params_uri'] = '' on the dict it is given
SnippetStep ==
    /\ pc = "snippet"
    /\ IF Len(snippet) = 0
       THEN UNCHANGED <<output_notebook, param_value_dict>>
       ELSE IF Lower(snippet) = Papermill
       THEN /\ output_notebook' =
                 [output_notebook EXCEPT
                     !.cells = inject_code_at_top(@, papermill_snippet, "None")]
            /\ UNCHANGED param_value_dict
       ELSE IF Lower(snippet) = Nbrun
       THEN /\ param_value_dict' = DictSet(param_value_dict, ParamsUri, <<>>)
            /\ output_notebook' =
                 [output_notebook EXCEPT
                     !.cells = inject_code_at_top(@, nbrun_snippet, "None")]
       ELSE UNCHANGED <<output_notebook, param_value_dict>>
    /\ pc' = "done"
    /\ UNCHANGED <<run, input_notebook, snippet, contents, ci, li, param_list, call>>

\* one of the steps that read and rewrite the output file raises (nbformat.read
\* or nbformat.write): the file stays as the previous step left it
StepFails ==
    /\ \/ pc = "written" /\ Lower(snippet) = Nbrun
       \/ pc = "header"
       \/ pc = "snippet" /\ Len(snippet) > 0
    /\ pc' = "failed"
    /\ UNCHANGED <<run, input_notebook, snippet, contents, ci, li, param_list,
                   param_value_dict, output_notebook, call>>

\* a further call of parameterize_notebook, again without snippet, on the
\* output of a call without snippet, writing to a new path
Rerun ==
    /\ pc = "done"
    /\ run < MaxRuns
    /\ Len(snippet) = 0
    /\ input_notebook' = output_notebook.cells
    /\ output_notebook' = NoFile
    /\ run' = run + 1
    /\ pc' = "start"
    /\ UNCHANGED <<snippet, contents, ci, li, param_list, param_value_dict, call>>

Next ==
    \/ ReadInput
    \/ ReadFails
    \/ SkipCell
    \/ ScanLine
    \/ EndPass1
    \/ SyncCell
    \/ WriteOutput
    \/ WriteFails
    \/ ParamsUriStep
    \/ HeaderStep
    \/ SnippetStep
    \/ StepFails
    \/ Rerun

Spec == Init /\ [][Next]_vars

(***************************************************************************)
(* The Parameter Table on its own: process_parameter_dict called with any  *)
(* sequence of hints and values the detectors can pass.                    *)
(***************************************************************************)
\* a, a_2, my_bucket, S3_URI (the shell detector), "{ " and "a-b "
Hints ==
    { <<"a">>, <<"a","_","2">>, <<"m","y","_","b","u","c","k","e","t">>,
      <<"S","3","_","U","R","I">>, <<"{"," ">>, <<"a","-","b"," ">> }

Values == { <<"1">>, <<"2">>, <<"3">> }

TableInit ==
    /\ pc = "table"
    /\ run = 1
    /\ input_notebook = <<>>
    /\ snippet = <<>>
    /\ contents = <<>>
    /\ ci = 1
    /\ li = 1
    /\ param_list = <<>>
    /\ param_value_dict = <<>>
    /\ output_notebook = NoFile
    /\ call = NoCall

TableCall ==
    /\ pc = "table"
    /\ \E variable \in Hints, value \in Values :
          LET r == process_parameter_dict(value, variable, param_list, param_value_dict)
          IN  /\ param_list' = r.param_list
              /\ param_value_dict' = r.param_value_dict
              /\ call' = [variable |-> variable, value |-> value,
                          param_name |-> r.param_name,
                          created |-> Len(r.param_list) > Len(param_list)]
    /\ UNCHANGED <<pc, run, input_notebook, snippet, contents, ci, li, output_notebook>>

TableNext == TableCall

SpecTable == TableInit /\ [][TableNext]_vars

(***************************************************************************)
(* update_new_line on its own: called with any short line over quotes, a   *)
(* letter and "=", a text to replace and a replacement.                    *)
(***************************************************************************)
MaxLineLen == 4

LineChars == {DQ, SQ, "A", "="}

OrigLines == UNION {[1..n -> LineChars] : n \in 0..MaxLineLen}

\* the literal A and the literal AA
OrigTexts == { <<"A">>, <<"A","A">> }

\* PARAM_A, $PARAM_A (environment detector) and {PARAM_A} (shell detector)
NewTexts ==
    { PARAM \o <<"A">>, <<"$">> \o PARAM \o <<"A">>, <<"{">> \o PARAM \o <<"A">> \o <<"}">> }

UpdateInit ==
    /\ pc = "update"
    /\ run = 1
    /\ input_notebook = <<>>
    /\ snippet = <<>>
    /\ contents = <<>>
    /\ ci = 1
    /\ li = 1
    /\ param_list = <<>>
    /\ param_value_dict = <<>>
    /\ output_notebook = NoFile
    /\ call \in [orig_line : OrigLines, orig_text : OrigTexts, new_text : NewTexts,
                 new_line : {<<>>}]

UpdateCall ==
    /\ pc = "update"
    /\ pc' = "updated"
    /\ call' = [call EXCEPT !.new_line =
                   update_new_line(call.orig_line, call.orig_text, call.new_text)]
    /\ UNCHANGED <<run, input_notebook, snippet, contents, ci, li, param_list,
                   param_value_dict, output_notebook>>

UpdateNext == UpdateCall

SpecUpdate == UpdateInit /\ [][UpdateNext]_vars

(***************************************************************************)
(* Properties                                                              *)
(***************************************************************************)
Distinct(s) == \A i, j \in DOMAIN s : i # j => s[i] # s[j]

Suffixed(base, k) == PARAM \o base \o <<"_">> \o Decimal(k)

\* C3 (name uniqueness under collision): a call that mints a name returns
\* PARAM_<base> when that name is free and otherwise PARAM_<base>_k for the
\* smallest k >= 2 whose name is free; the name is appended, the earlier names
\* and entries stay as they were, a call that mints nothing changes nothing,
\* and the minted names are pairwise distinct.
C3_CollisionStep ==
    LET base == get_alphanumeric(call'.variable)
        name == call'.param_name
    IN  /\ Distinct(param_list')
        /\ call'.created =>
              /\ name \notin Range(param_list)
              /\ param_list' = Append(param_list, name)
              /\ Len(param_value_dict') = Len(param_value_dict) + 1
              /\ SubSeq(param_value_dict', 1, Len(param_value_dict)) = param_value_dict
              /\ param_value_dict'[Len(param_value_dict')].key = name
              /\ IF PARAM \o base \notin Range(param_list)
                 THEN name = PARAM \o base
                 ELSE \E k \in 2..(Len(param_list) + 2) :
                         /\ name = Suffixed(base, k)
                         /\ \A j \in 2..(k - 1) : Suffixed(base, j) \in Range(param_list)
        /\ ~call'.created =>
              /\ param_list' = param_list
              /\ param_value_dict' = param_value_dict

C3_NameUniqueness == [][TableCall => C3_CollisionStep]_vars

\* a third value for the hint a, minted after PARAM_A and PARAM_A_2 were taken
C3_Witness ==
    /\ call.created
    /\ call.param_name = <<"P","A","R","A","M","_","A","_","3">>
    /\ <<"P","A","R","A","M","_","A","_","2">> \in Range(param_list)

AllAlnum(s) == s # <<>> /\ \A i \in DOMAIN s : IsAlnum(s[i])

AllDigits(s) == s # <<>> /\ \A i \in DOMAIN s : s[i] \in Range(DigitChars)

\* PARAM_<ALNUM>(_<digit>+)?
MatchesNamePattern(name) ==
    /\ OccursAt(name, PARAM, 1)
    /\ LET rest == From(name, Len(PARAM) + 1)
       IN  \/ AllAlnum(rest)
           \/ \E u \in DOMAIN rest :
                 /\ rest[u] = "_"
                 /\ AllAlnum(SubSeq(rest, 1, u - 1))
                 /\ AllDigits(From(rest, u + 1))

\* C4 as claimed (name validity): every minted name is PARAM_, one run of
\* alphanumeric characters and optionally _ and a decimal counter.
C4_Original == \A i \in DOMAIN param_list : MatchesNamePattern(param_list[i])

\* the hint, trimmed of whitespace and quotes and uppercased
CleanedHint(variable) == Upper(StripChars(StripChars(Strip(variable), {DQ}), {SQ}))

\* the cleaned hint holds a run of alphanumerics with no word character on
\* either side
HasDelimitedToken(h) ==
    \E i, j \in DOMAIN h :
        /\ i <= j
        /\ AllAlnum(SubSeq(h, i, j))
        /\ (i = 1 \/ ~IsWord(h[i - 1]))
        /\ (j = Len(h) \/ ~IsWord(h[j + 1]))

\* name is PARAM_<core> or PARAM_<core>_<k>, with the core the hint allows
ValidNameFor(variable, name) ==
    /\ OccursAt(name, PARAM, 1)
    /\ LET rest == From(name, Len(PARAM) + 1)
           h    == CleanedHint(variable)
           cores == {rest} \cup
                    {SubSeq(rest, 1, u - 1) : u \in
                        {v \in DOMAIN rest : rest[v] = "_" /\ AllDigits(From(rest, v + 1))}}
       IN  \E core \in cores :
              IF HasDelimitedToken(h) THEN AllAlnum(core) ELSE core = h

\* C4 as amended (name validity): a minted name is PARAM_, a base and optionally
\* _ and a decimal counter; the base is one run of alphanumeric characters when
\* the cleaned hint holds an alphanumeric run delimited by non-word characters,
\* and the whole cleaned hint otherwise (so it may hold underscores, as in
\* PARAM_MY_BUCKET and PARAM_S3_URI, or no alphanumeric character).
C4_NameValidity == call.created => ValidNameFor(call.variable, call.param_name)

\* a name minted from a hint with an underscore, after a collision
C4_Witness ==
    /\ call.created
    /\ call.variable = <<"m","y","_","b","u","c","k","e","t">>
    /\ call.param_name =
          <<"P","A","R","A","M","_","M","Y","_","B","U","C","K","E","T","_","2">>

\* the texts between the quotes of the quoted substrings of a line, read left
\* to right from pos: an opening quote pairs with the next quote of its kind
RECURSIVE QuotedTextsFrom(_, _)
QuotedTextsFrom(line, pos) ==
    LET opens == {i \in pos..Len(line) :
                     line[i] \in {DQ, SQ} /\ FindFrom(line, <<line[i]>>, i + 1) # 0}
    IN  IF opens = {} THEN {}
        ELSE LET i == Min(opens)
                 j == FindFrom(line, <<line[i]>>, i + 1)
             IN  {SubSeq(line, i + 1, j - 1)} \cup QuotedTextsFrom(line, j + 1)

TableValues == {param_value_dict[k].value : k \in DOMAIN param_value_dict}

\* C1 (global consistency): once pass 2 has run over all code cells, no line
\* of a code cell holds a quoted substring whose text between the quotes is the
\* value of a Table entry.
C1_GlobalConsistency ==
    pc = "written" =>
        \A c \in DOMAIN contents :
            IsCode(contents[c]) =>
                \A l \in DOMAIN contents[c].source :
                    QuotedTextsFrom(contents[c].source[l], 1) \cap TableValues = {}

\* trimmed of surrounding quotes and whitespace
Trimmed(value) == StripChars(value, {DQ, SQ, " ", "\t", "\n"})

\* C2 (value uniqueness): no two distinct Table entries hold the same value
\* after trimming surrounding quotes and whitespace (so a call with the value of
\* an existing entry creates no entry).
C2_ValueUniqueness ==
    \A i, j \in DOMAIN param_value_dict :
        i # j => Trimmed(param_value_dict[i].value) # Trimmed(param_value_dict[j].value)

\* the trimmed line begins with the keyword kw, taken as a word
BeginsWithKeyword(line, kw) ==
    LET t == Strip(line)
    IN  /\ OccursAt(t, kw, 1)
        /\ (Len(t) = Len(kw) \/ ~IsWord(t[Len(kw) + 1]))

\* a definition, loop, conditional, import or comment marker, or a triple quote
StructuralLine(line) ==
    \/ \E kw \in { <<"d","e","f">>, <<"f","o","r">>, <<"w","h","i","l","e">>,
                   <<"i","f">>, <<"i","m","p","o","r","t">>, <<"f","r","o","m">> } :
          BeginsWithKeyword(line, kw)
    \/ OccursAt(Strip(line), <<"#">>, 1)
    \/ Contains(line, TripleQuote)

\* C5 (structural-line filter): in pass 1 a structural line is left as it is
\* and adds no Table entry, and a line that is not structural (and not blank)
\* is not filtered: the detectors run on it.
C5_FilterStep ==
    LET line == contents[ci].source[li]
        after == [new_line |-> contents'[ci].source[li], param_list |-> param_list',
                  param_value_dict |-> param_value_dict']
    IN  IF StructuralLine(line) \/ Strip(line) = <<>>
        THEN after = [new_line |-> line, param_list |-> param_list,
                      param_value_dict |-> param_value_dict]
        ELSE after = Detectors(line, param_list, param_value_dict)

C5_StructuralFilter == [][ScanLine => C5_FilterStep]_vars

\* C6 (idempotence on header): a call on the output of an earlier call (header
\* cell present, literals replaced) creates no parameter and rewrites no line.
C6_Idempotence ==
    (run > 1 /\ pc = "pass2") =>
        /\ param_value_dict = <<>>
        /\ contents = input_notebook

HeaderCells(cells) == {i \in DOMAIN cells : cells[i].tags = <<"parameters">>}

\* header cells the current call has added to its output
NewHeaders ==
    Cardinality(HeaderCells(output_notebook.cells)) - Cardinality(HeaderCells(input_notebook))

ValueOf(name) ==
    param_value_dict[CHOOSE k \in DOMAIN param_value_dict : param_value_dict[k].key = name].value

\* name = "value", or name = 'value' when the value holds a double quote
Declaration(name) ==
    LET q == IF DQ \in Range(ValueOf(name)) THEN SQ ELSE DQ
    IN  name \o <<" ", "=", " ", q>> \o ValueOf(name) \o <<q, "\n">>

ParamsUriDeclaration == ParamsUri \o <<" ", "=", " ", DQ, DQ>>

\* the header cell is inserted once, after both passes, and leads the output
\* when no snippet is requested; "lines" are the lines it must hold
HeaderPlacement(lines) ==
    /\ pc \in {"start", "pass1", "pass2"} => ~output_notebook.exists
    /\ pc \in {"written", "header"} => NewHeaders = 0
    /\ pc \in {"snippet", "done"} =>
          /\ NewHeaders = 1
          /\ output_notebook.cells[Min(HeaderCells(output_notebook.cells))].source = lines
          /\ Len(snippet) = 0 => 1 \in HeaderCells(output_notebook.cells)

\* C7 as claimed (header synthesis): the header holds one declaration per Table
\* entry, in the order of creation, and no other declaration.
C7_Original ==
    HeaderPlacement([i \in DOMAIN param_list |-> Declaration(param_list[i])])

\* C7 as amended (header synthesis): the header holds one declaration per Table
\* entry, in the order of creation, followed by the fixed declaration
\* params_uri = "" and no other; it is inserted exactly once per call, only
\* after pass 1 and pass 2 have finished, and it is the leading cell of the
\* output when no snippet is requested.
C7_HeaderSynthesis ==
    HeaderPlacement([i \in DOMAIN param_list |-> Declaration(param_list[i])]
                    \o <<ParamsUriDeclaration>>)

\* a finished call without snippet whose Table holds two entries
C7_Witness ==
    /\ pc = "done"
    /\ Len(snippet) = 0
    /\ Len(param_list) = 2
    /\ output_notebook.cells[1].tags = <<"parameters">>
    /\ Len(output_notebook.cells[1].source) = 3

\* C8 (all-or-nothing output): after a failed call no output file exists, and
\* an existing output file always holds the header cell of the call.
C8_AllOrNothing ==
    /\ pc = "failed" => ~output_notebook.exists
    /\ output_notebook.exists => NewHeaders >= 1

IsPrefix(s, t) == Len(s) <= Len(t) /\ SubSeq(t, 1, Len(s)) = s

\* C9 (Table frame): within a call an entry once created is never removed,
\* renamed or given another value, and after pass 1 no step changes the Table.
C9_FrameStep ==
    pc # "start" =>
        /\ IsPrefix(param_value_dict, param_value_dict')
        /\ pc # "pass1" => param_value_dict' = param_value_dict

C9_TableFrame == [][C9_FrameStep]_vars

\* the parts of a line of the form %env KEY = V (V double-quoted, single-quoted
\* or a bareword), the newline that ends the line apart
EnvForm(line) ==
    LET l    == StripChars(line, {"\n"})
        eq   == Find(l, <<" ", "=", " ">>)
        key  == SubSeq(l, 6, eq - 1)
        raw  == From(l, eq + 3)
        quoted == /\ Len(raw) >= 3
                  /\ raw[1] \in {DQ, SQ}
                  /\ raw[Len(raw)] = raw[1]
                  /\ \A i \in 2..(Len(raw) - 1) : raw[i] \notin {DQ, SQ}
        bare == /\ raw # <<>>
                /\ \A i \in DOMAIN raw : raw[i] \notin {DQ, SQ, " ", ",", "="}
    IN  IF OccursAt(l, EnvMarker \o <<" ">>, 1) /\ eq > 6 /\ AllAlnum(key) /\ (quoted \/ bare)
        THEN [ok |-> TRUE, key |-> key, start |-> eq + 3,
              value |-> IF quoted THEN SubSeq(raw, 2, Len(raw) - 1) ELSE raw,
              rest |-> From(line, Len(l) + 1)]
        ELSE [ok |-> FALSE, key |-> <<>>, start |-> 0, value |-> <<>>, rest |-> <<>>]

\* C10 (environment-directive detector): pass 1 on a line %env KEY = V whose
\* value is not in the Table yet creates exactly one entry, named after KEY and
\* holding V without its quotes, and rewrites the value on the line to $N, N
\* the name of that entry.
C10_EnvStep ==
    LET line == contents[ci].source[li]
        form == EnvForm(line)
        n    == Len(param_value_dict')
    IN  (form.ok /\ form.value \notin TableValues) =>
            /\ n = Len(param_value_dict) + 1
            /\ param_value_dict'[n].value = form.value
            /\ OccursAt(param_value_dict'[n].key, PARAM \o Upper(form.key), 1)
            /\ contents'[ci].source[li] =
                  SubSeq(line, 1, form.start - 1) \o <<"$">> \o param_value_dict'[n].key
                  \o form.rest

C10_EnvDirective == [][ScanLine => C10_EnvStep]_vars

\* a text that ends in a dot and a whitelisted extension, or an s3:// URI
IsFileReference(text) ==
    \/ \E k \in DOMAIN extensions :
          /\ Len(text) > Len(extensions[k]) + 1
          /\ EndsWith(text, <<".">> \o extensions[k])
    \/ /\ Len(text) > Len(S3Scheme)
       /\ IsPrefix(S3Scheme, text)

\* the quoted strings of a line that are file references, as [quote, text]
QuotedFileReferences(line) ==
    { [quote |-> line[s], text |-> SubSeq(line, s + 1, c - 1)] :
        <<s, c>> \in { p \in (DOMAIN line) \X (DOMAIN line) :
                         /\ p[1] + 1 < p[2]
                         /\ line[p[1]] \in {DQ, SQ}
                         /\ line[p[2]] = line[p[1]]
                         /\ \A i \in (p[1] + 1)..(p[2] - 1) : line[i] \notin {DQ, SQ}
                         /\ IsFileReference(SubSeq(line, p[1] + 1, p[2] - 1)) } }

\* C11 (file-reference detector): after pass 1 on an unfiltered line, every
\* quoted string of the line that ends in a whitelisted extension or is an
\* s3:// URI (with or without an extension) has a Table entry whose value is
\* exactly the text between the quotes, and the quoted literal has been
\* replaced on the line by the unquoted name of that entry.
C11_FileStep ==
    LET line == contents[ci].source[li]
        new  == contents'[ci].source[li]
    IN  ~Skipped(line) =>
            \A ref \in QuotedFileReferences(line) :
                /\ ~Contains(new, <<ref.quote>> \o ref.text \o <<ref.quote>>)
                /\ \E i \in DOMAIN param_value_dict' :
                      /\ param_value_dict'[i].value = ref.text
                      /\ Contains(new, param_value_dict'[i].key)

C11_FileReference == [][ScanLine => C11_FileStep]_vars

\* the form of text that the replacement is to act on: "text" when the line
\* holds it, otherwise 'text', otherwise text itself, <<>> when none occurs
FormToReplace(line, text) ==
    LET dquoted == <<DQ>> \o text \o <<DQ>>
        squoted == <<SQ>> \o text \o <<SQ>>
    IN  IF Contains(line, dquoted) THEN dquoted
        ELSE IF Contains(line, squoted) THEN squoted
        ELSE IF Contains(line, text) THEN text
        ELSE <<>>

\* C12 (single replacement per match): update_new_line(line, value, name)
\* changes one span at most: the first occurrence of "value" when the line
\* holds one, otherwise the first occurrence of 'value', otherwise the first
\* raw occurrence of value; every other character is kept, and a line that
\* holds none of the three forms is returned as it is.
C12_SingleReplacement ==
    pc = "updated" =>
        LET line == call.orig_line
            form == FormToReplace(line, call.orig_text)
            at   == Find(line, form)
        IN  IF form = <<>>
            THEN call.new_line = line
            ELSE call.new_line =
                    SubSeq(line, 1, at - 1) \o call.new_text \o From(line, at + Len(form))

====
